---- MODULE Spec2Model ----
(***************************************************************************)
(* Encrypted order book via sorted arrays: the plaintext reference         *)
(* implementation of article-generic-encrypted-order-book.ipynb.           *)
(*                                                                         *)
(* Python lists are indexed from 0 and TLA+ sequences from 1: position 0   *)
(* of an array is index 1 here, and the top entry (index -1) is index      *)
(* Len(self).                                                              *)
(***************************************************************************)
EXTENDS Integers, Sequences, FiniteSets, TLC

(***************************************************************************)
(* Bounds of the model.                                                    *)
(***************************************************************************)
\* size of the book (the k of the article)
K == 4
\* prices of submitted orders are 1..MaxPrice
MaxPrice == 2
\* quantities of submitted orders are 1..MaxQuantity
MaxQuantity == 2

\* the caller may go one submission past the capacity of the book
MaxOrders == K + 1

VARIABLES
    asks,          \* book.asks
    bids,          \* book.bids
    pc,            \* "idle", or "clear" while book.clear() is in its loop
    transactions,  \* the list book.clear() is building
    returned,      \* the last completed public call and the value it returned
    last,          \* the last book.order()/book.match(): arrays on entry, result
    submitted,     \* how many asks and how many bids order() has been given
    order_log,     \* the argument of simulation(); <<>> outside simulation()
    simulated_log, \* the list simulation() is building
    twin,          \* a second book, run side by side with the first; or None
    ghost          \* what is followed in the two books run side by side

vars ==
    <<asks, bids, pc, transactions, returned, last, submitted, order_log,
      simulated_log, twin, ghost>>

\* the variables of the book and of its caller, without simulation()'s
book_vars == <<asks, bids, pc, transactions, returned, last, submitted>>

(***************************************************************************)
(* Data structures.                                                        *)
(***************************************************************************)
\* Python's None
None == [none |-> TRUE]

\* float('inf'): an int stands for it that is above every price of the
\* model (random_order_log draws prices of at most 900)
oo == 1000

transaction(price, quantity) == [price |-> price, quantity |-> quantity]

order(price, quantity, category) ==
    [price |-> price, quantity |-> quantity, category |-> category]

(***************************************************************************)
(* Primitive operations for simple types.                                  *)
(***************************************************************************)
or_(a, b) == a \/ b

if_then_else(c, n, m) == IF c THEN n ELSE m

equal_to_zero(n) == n = 0

less_than(n, m) == n < m

plus(n, m) == n + m

minus(n, m) == n - m

minimum(n, m) == if_then_else(less_than(n, m), n, m)

maximum(n, m) == if_then_else(less_than(n, m), m, n)

decrypt_bool(b) == b

decrypt_int(n) == n

(***************************************************************************)
(* Primitive operations for non-simple types.                              *)
(***************************************************************************)
if_then_else_order(c, s, t) ==
    LET price == if_then_else(c, s.price, t.price)
        quantity == if_then_else(c, s.quantity, t.quantity)
        category == if_then_else(c, s.category, t.category)
    IN  order(price, quantity, category)

minimum_order(s, t) ==
    LET condition == less_than(s.price, t.price)
        price == if_then_else(condition, s.price, t.price)
        quantity == if_then_else(condition, s.quantity, t.quantity)
        category == if_then_else(condition, s.category, t.category)
    IN  order(price, quantity, category)

\* fault variant of maximum_order: each field is chosen by its own comparison
maximum_order_by_field(s, t) ==
    order(maximum(s.price, t.price), maximum(s.quantity, t.quantity),
          maximum(s.category, t.category))

maximum_order(s, t) ==
    LET condition == less_than(s.price, t.price)
        price == if_then_else(condition, t.price, s.price)
        quantity == if_then_else(condition, t.quantity, s.quantity)
        category == if_then_else(condition, t.category, s.category)
    IN  order(price, quantity, category)

if_then_else_pair(c, p, q) ==
    <<if_then_else(c, p[1], q[1]), if_then_else(c, p[2], q[2])>>

(***************************************************************************)
(* Core functions on orders.                                               *)
(***************************************************************************)
\* fault variant of descending: two active orders are left as they are
descending_inert_only(pair) ==
    LET s == pair[1]
        t == pair[2]
    IN  if_then_else_pair(
            or_(equal_to_zero(t.quantity), equal_to_zero(t.category)),
            <<t, s>>,
            <<s, t>>)

\* the algorithm written in the docstring of descending
descending_docstring(pair) ==
    LET s == pair[1]
        t == pair[2]
    IN  IF s.quantity = 0 \/ s.category = 0
        THEN <<s, t>>
        ELSE IF t.quantity = 0 \/ t.category = 0
             THEN <<t, s>>
             ELSE <<maximum_order(s, t), minimum_order(s, t)>>

descending(pair) ==
    LET s == pair[1]
        t == pair[2]
    IN  if_then_else_pair(
            or_(equal_to_zero(t.quantity), equal_to_zero(t.category)),
            <<t, s>>,
            if_then_else_pair(
                or_(equal_to_zero(s.quantity), equal_to_zero(s.category)),
                <<s, t>>,
                <<maximum_order(s, t), minimum_order(s, t)>>))

ascending(pair) ==
    LET s == pair[1]
        t == pair[2]
    IN  if_then_else_pair(
            or_(equal_to_zero(t.quantity), equal_to_zero(t.category)),
            <<t, s>>,
            if_then_else_pair(
                or_(equal_to_zero(s.quantity), equal_to_zero(s.category)),
                <<s, t>>,
                <<minimum_order(s, t), maximum_order(s, t)>>))

\* fault variant of match: the two category tests are left out
match_without_category(ask_bid) ==
    LET ask == ask_bid[1]
        bid == ask_bid[2]
        price == ask.price
        quantity == minimum(ask.quantity, bid.quantity)
        no_match ==
            or_(less_than(bid.price, ask.price), equal_to_zero(quantity))
    IN  IF decrypt_bool(no_match)
        THEN None
        ELSE transaction(decrypt_int(price), decrypt_int(quantity))

\* fault variant of match: the transaction carries the price of the bid
match_at_bid_price(ask_bid) ==
    LET ask == ask_bid[1]
        bid == ask_bid[2]
        price == bid.price
        quantity == minimum(ask.quantity, bid.quantity)
        no_match ==
            or_(less_than(bid.price, ask.price),
                or_(equal_to_zero(quantity),
                    or_(equal_to_zero(ask.category),
                        equal_to_zero(bid.category))))
    IN  IF decrypt_bool(no_match)
        THEN None
        ELSE transaction(decrypt_int(price), decrypt_int(quantity))

\* fault variant of match: no transaction at equal prices
match_above_only(ask_bid) ==
    LET ask == ask_bid[1]
        bid == ask_bid[2]
        price == ask.price
        quantity == minimum(ask.quantity, bid.quantity)
        no_match ==
            or_(~less_than(ask.price, bid.price),
                or_(equal_to_zero(quantity),
                    or_(equal_to_zero(ask.category),
                        equal_to_zero(bid.category))))
    IN  IF decrypt_bool(no_match)
        THEN None
        ELSE transaction(decrypt_int(price), decrypt_int(quantity))

match(ask_bid) ==
    LET ask == ask_bid[1]
        bid == ask_bid[2]
        price == ask.price
        quantity == minimum(ask.quantity, bid.quantity)
        no_match ==
            or_(less_than(bid.price, ask.price),
                or_(equal_to_zero(quantity),
                    or_(equal_to_zero(ask.category),
                        equal_to_zero(bid.category))))
    IN  IF decrypt_bool(no_match)
        THEN None
        ELSE transaction(decrypt_int(price), decrypt_int(quantity))

\* a call of decrypt_bool or decrypt_int, with the value it reveals
decrypt(call, value) == [call |-> call, value |-> value]

\* fault variant of match_decrypts: the price and the quantity are decrypted
\* whatever no_match is
match_decrypts_unconditional(ask_bid) ==
    LET ask == ask_bid[1]
        bid == ask_bid[2]
        price == ask.price
        quantity == minimum(ask.quantity, bid.quantity)
        no_match ==
            or_(less_than(bid.price, ask.price),
                or_(equal_to_zero(quantity),
                    or_(equal_to_zero(ask.category),
                        equal_to_zero(bid.category))))
    IN  <<decrypt("decrypt_bool", no_match),
          decrypt("decrypt_int", price),
          decrypt("decrypt_int", quantity)>>

\* the calls of decrypt_bool and decrypt_int that match makes, in the order
\* in which it makes them
match_decrypts(ask_bid) ==
    LET ask == ask_bid[1]
        bid == ask_bid[2]
        price == ask.price
        quantity == minimum(ask.quantity, bid.quantity)
        no_match ==
            or_(less_than(bid.price, ask.price),
                or_(equal_to_zero(quantity),
                    or_(equal_to_zero(ask.category),
                        equal_to_zero(bid.category))))
    IN  IF decrypt_bool(no_match)
        THEN <<decrypt("decrypt_bool", no_match)>>
        ELSE <<decrypt("decrypt_bool", no_match),
               decrypt("decrypt_int", price),
               decrypt("decrypt_int", quantity)>>

\* fault variant of update: the quantity of the bid is not reduced
update_ask_only(ask_bid) ==
    LET ask == ask_bid[1]
        bid == ask_bid[2]
        quantity == minimum(ask.quantity, bid.quantity)
    IN  if_then_else_pair(
            less_than(bid.price, ask.price),
            ask_bid,
            <<order(ask.price, minus(ask.quantity, quantity), ask.category),
              order(bid.price, bid.quantity, bid.category)>>)

\* fault variant of update: both quantities are reduced by the larger one
update_by_maximum(ask_bid) ==
    LET ask == ask_bid[1]
        bid == ask_bid[2]
        quantity == maximum(ask.quantity, bid.quantity)
    IN  if_then_else_pair(
            less_than(bid.price, ask.price),
            ask_bid,
            <<order(ask.price, minus(ask.quantity, quantity), ask.category),
              order(bid.price, minus(bid.quantity, quantity), bid.category)>>)

\* fault variant of update: the quantities are left as they are
update_without_reduction(ask_bid) ==
    LET ask == ask_bid[1]
        bid == ask_bid[2]
    IN  if_then_else_pair(
            less_than(bid.price, ask.price),
            ask_bid,
            <<order(ask.price, ask.quantity, ask.category),
              order(bid.price, bid.quantity, bid.category)>>)

update(ask_bid) ==
    LET ask == ask_bid[1]
        bid == ask_bid[2]
        quantity == minimum(ask.quantity, bid.quantity)
    IN  if_then_else_pair(
            less_than(bid.price, ask.price),
            ask_bid,
            <<order(ask.price, minus(ask.quantity, quantity), ask.category),
              order(bid.price, minus(bid.quantity, quantity), bid.category)>>)

(***************************************************************************)
(* Sorted array data structure.                                            *)
(***************************************************************************)
\* the call conditional_swap(pair) of a function passed by name
apply(conditional_swap, pair) ==
    IF conditional_swap = "descending"
    THEN descending(pair)
    ELSE ascending(pair)

\* the body of the loop of array.arrange for Python index i - 1
arrange_step(self, i, conditional_swap) ==
    LET pair == <<self[i], self[i + 1]>>
        xy == apply(conditional_swap, pair)
    IN  [self EXCEPT ![i] = xy[1], ![i + 1] = xy[2]]

\* fault variant of arrange: the loop starts at the second pair
arrange_late(self, conditional_swap) ==
    LET after[n \in 1..(Len(self) - 1)] ==
            IF n = 1
            THEN self
            ELSE arrange_step(after[n - 1], n, conditional_swap)
    IN  after[Len(self) - 1]

\* fault variant of arrange: the loop stops one pair short of the top
arrange_short(self, conditional_swap) ==
    LET after[n \in 0..(Len(self) - 2)] ==
            IF n = 0
            THEN self
            ELSE arrange_step(after[n - 1], n, conditional_swap)
    IN  after[Len(self) - 2]

\* array.arrange: after[n] is the array after the first n iterations of
\* the loop "for i in range(len(self) - 1)"
arrange(self, conditional_swap) ==
    LET after[n \in 0..(Len(self) - 1)] ==
            IF n = 0
            THEN self
            ELSE arrange_step(after[n - 1], n, conditional_swap)
    IN  after[Len(self) - 1]

\* fault variant of inject: the order is inserted before the first entry
inject_insert(self, o, conditional_swap) ==
    arrange(<<o>> \o self, conditional_swap)

\* fault variant of inject: the array is not arranged after the overwrite
inject_without_arrange(self, o, conditional_swap) == [self EXCEPT ![1] = o]

inject(self, o, conditional_swap) ==
    arrange([self EXCEPT ![1] = o], conditional_swap)

(***************************************************************************)
(* Order book implementation.                                              *)
(***************************************************************************)
\* book.__init__: the two arrays of null orders
book_asks(size) == [i \in 1..size |-> order(oo, 0, 0)]

book_bids(size) == [i \in 1..size |-> order(0, 0, 0)]

\* fault variant of book.order: the two copies keep the category of the order
book_order_same_category(a, b, o) ==
    LET ask == order(o.price, o.quantity, o.category)
        bid == order(o.price, o.quantity, o.category)
    IN  [asks |-> inject(a, ask, "descending"),
         bids |-> inject(b, bid, "ascending")]

\* book.order: the arrays after the submitted order o is stored
book_order(a, b, o) ==
    LET ask == order(o.price, o.quantity, plus(o.category, -1))
        bid == order(o.price, o.quantity, plus(o.category, 1))
    IN  [asks |-> inject(a, ask, "descending"),
         bids |-> inject(b, bid, "ascending")]

\* fault variant of book.match: the arrays are arranged whatever match returns
book_match_always_arranges(a, b) ==
    LET ask == a[Len(a)]
        bid == b[Len(b)]
        t == match(<<ask, bid>>)
        ab == update(<<ask, bid>>)
    IN  [asks |-> arrange([a EXCEPT ![Len(a)] = ab[1]], "descending"),
         bids |-> arrange([b EXCEPT ![Len(b)] = ab[2]], "ascending"),
         transaction |-> t,
         decrypts |-> match_decrypts(<<ask, bid>>)]

\* book.match: the arrays after the call and the value it returns
book_match(a, b) ==
    LET ask == a[Len(a)]
        bid == b[Len(b)]
        t == match(<<ask, bid>>)
        ab == update(<<ask, bid>>)
    IN  IF t # None
        THEN [asks |-> arrange([a EXCEPT ![Len(a)] = ab[1]], "descending"),
              bids |-> arrange([b EXCEPT ![Len(b)] = ab[2]], "ascending"),
              transaction |-> t,
              decrypts |-> match_decrypts(<<ask, bid>>)]
        ELSE [asks |-> a, bids |-> b, transaction |-> t,
              decrypts |-> match_decrypts(<<ask, bid>>)]

(***************************************************************************)
(* The callers of the book.                                                *)
(***************************************************************************)
Categories == {-1, 1}

\* the orders random_order_log draws from, within the bounds
Orders ==
    {order(p, q, c) : p \in 1..MaxPrice, q \in 1..MaxQuantity, c \in Categories}

Submitted == submitted.ask + submitted.bid

\* the state after book(size)
Book(size) ==
    /\ asks = book_asks(size)
    /\ bids = book_bids(size)
    /\ pc = "idle"
    /\ transactions = <<>>
    /\ returned = [call |-> "book", after |-> "book", value |-> None]
    /\ last = [op |-> "book", asks |-> asks, bids |-> bids, arg |-> None,
               result |-> None, decrypts |-> <<>>]
    /\ submitted = [ask |-> 0, bid |-> 0]

\* a call of book.order(o)
Order(o) ==
    /\ pc = "idle"
    /\ LET r == book_order(asks, bids, o)
       IN  /\ asks' = r.asks
           /\ bids' = r.bids
    /\ last' = [op |-> "order", asks |-> asks, bids |-> bids, arg |-> o,
                result |-> None, decrypts |-> <<>>]
    /\ returned' = [call |-> "order", after |-> returned.call, value |-> None]
    /\ submitted' = IF o.category = -1
                    THEN [submitted EXCEPT !.ask = @ + 1]
                    ELSE [submitted EXCEPT !.bid = @ + 1]
    /\ UNCHANGED <<pc, transactions>>

\* a call of book.match() by the caller itself
BookMatch ==
    /\ pc = "idle"
    /\ LET r == book_match(asks, bids)
       IN  /\ asks' = r.asks
           /\ bids' = r.bids
           /\ last' = [op |-> "match", asks |-> asks, bids |-> bids,
                       arg |-> None, result |-> r.transaction,
                       decrypts |-> r.decrypts]
           /\ returned' = [call |-> "match", after |-> returned.call,
                           value |-> r.transaction]
    /\ UNCHANGED <<pc, transactions, submitted>>

\* a call of book.clear(), up to the head of its loop
ClearCall ==
    /\ pc = "idle"
    /\ pc' = "clear"
    /\ transactions' = <<>>
    /\ UNCHANGED <<asks, bids, returned, last, submitted>>

\* one iteration of the loop of book.clear(), and its return on break
ClearLoop ==
    /\ pc = "clear"
    /\ LET r == book_match(asks, bids)
       IN  /\ asks' = r.asks
           /\ bids' = r.bids
           /\ last' = [op |-> "match", asks |-> asks, bids |-> bids,
                       arg |-> None, result |-> r.transaction,
                       decrypts |-> r.decrypts]
           /\ IF r.transaction = None
              THEN /\ pc' = "idle"
                   /\ returned' = [call |-> "clear", after |-> returned.call,
                                   value |-> transactions]
                   /\ UNCHANGED transactions
              ELSE /\ transactions' = Append(transactions, r.transaction)
                   /\ UNCHANGED <<pc, returned>>
    /\ UNCHANGED submitted

(***************************************************************************)
(* Spec: a caller that makes any sequence of calls of order(), match() and *)
(* clear() on a book of size K.                                            *)
(***************************************************************************)
Init ==
    /\ Book(K)
    /\ order_log = <<>>
    /\ simulated_log = <<>>
    /\ twin = None
    /\ ghost = None

Submit(o) ==
    /\ Submitted < MaxOrders
    /\ Order(o)
    /\ UNCHANGED <<order_log, simulated_log, twin, ghost>>

Match ==
    /\ BookMatch
    /\ UNCHANGED <<order_log, simulated_log, twin, ghost>>

Clear ==
    /\ ClearCall
    /\ UNCHANGED <<order_log, simulated_log, twin, ghost>>

Settle ==
    /\ ClearLoop
    /\ UNCHANGED <<order_log, simulated_log, twin, ghost>>

Next ==
    \/ \E o \in Orders : Submit(o)
    \/ Match
    \/ Clear
    \/ Settle

Spec == Init /\ [][Next]_vars

\* what an iteration of the loop of book.clear() does to pc and transactions:
\* it breaks and returns, or it appends the transaction of book.match()
Iteration ==
    /\ pc = "clear"
    /\ \/ pc' = "idle" /\ transactions' = transactions
       \/ /\ pc' = "clear"
          /\ \E t \in [price : 1..MaxPrice, quantity : 1..MaxQuantity] :
                transactions' = Append(transactions, t)

\* book.clear() is not abandoned in the middle of its loop.  Settle is the
\* only action enabled while pc = "clear", it is enabled in every such state
\* and each of its steps is an Iteration step that changes pc or
\* transactions, so this is weak fairness of Settle.
FairSpec == Spec /\ WF_<<pc, transactions>>(Iteration)

(***************************************************************************)
(* RoundSpec: a caller that follows every order() by a clear(), as the     *)
(* loop of simulation() does.                                              *)
(***************************************************************************)
RoundOrder(o) ==
    /\ returned.call # "order"
    /\ Submit(o)

RoundClear ==
    /\ returned.call = "order"
    /\ Clear

RoundNext ==
    \/ \E o \in Orders : RoundOrder(o)
    \/ RoundClear
    \/ Settle

RoundSpec == Init /\ [][RoundNext]_vars

(***************************************************************************)
(* SimulationSpec: simulation(order_log) for the order log of the example, *)
(* random_order_log(1, 7), and for the logs that differ from it in the     *)
(* categories drawn.  The book has the size simulation() gives it, or the  *)
(* size of the book of the example of the earlier version of the notebook. *)
(***************************************************************************)
\* the size of the book in the example of src/unnamed/part_000
ScenarioSize == 6

\* the log random_order_log(1, 7) returns
ScenarioLog ==
    <<order(300, 2, 1), order(200, 8, 1), order(800, 7, -1),
      order(200, 8, -1), order(700, 7, -1), order(800, 5, -1),
      order(200, 6, -1)>>

\* the logs with the prices and quantities of ScenarioLog and any categories
random_order_log ==
    {[i \in DOMAIN ScenarioLog |-> [ScenarioLog[i] EXCEPT !.category = c[i]]] :
        c \in [DOMAIN ScenarioLog -> Categories]}

SimulationInit ==
    /\ order_log \in random_order_log
    /\ simulated_log = <<>>
    /\ twin = None
    /\ ghost = None
    /\ \E size \in {ScenarioSize, Len(order_log)} : Book(size)

\* the head of an iteration of the loop over order_log, up to b.order(o)
SimulationOrder ==
    /\ returned.call # "order"
    /\ Submitted < Len(order_log)
    /\ LET o == order_log[Submitted + 1]
       IN  /\ Order(o)
           /\ simulated_log' = Append(simulated_log, o)
    /\ UNCHANGED <<order_log, twin, ghost>>

\* the call of b.clear()
SimulationClear ==
    /\ returned.call = "order"
    /\ ClearCall
    /\ UNCHANGED <<order_log, simulated_log, twin, ghost>>

\* fault variant of SimulationSettle: the transactions are put before the
\* order whose settlement produced them
SimulationSettle_before_order ==
    /\ ClearLoop
    /\ simulated_log' =
           IF pc' = "idle"
           THEN SubSeq(simulated_log, 1, Len(simulated_log) - 1)
                    \o transactions
                    \o <<simulated_log[Len(simulated_log)]>>
           ELSE simulated_log
    /\ UNCHANGED <<order_log, twin, ghost>>

\* the loop of b.clear() and, once it has returned, the inner loop that
\* appends its transactions to the simulated log
SimulationSettle ==
    /\ ClearLoop
    /\ simulated_log' = IF pc' = "idle"
                        THEN simulated_log \o transactions
                        ELSE simulated_log
    /\ UNCHANGED <<order_log, twin, ghost>>

SimulationNext ==
    \/ SimulationOrder
    \/ SimulationClear
    \/ SimulationSettle

SimulationSpec == SimulationInit /\ [][SimulationNext]_vars

(***************************************************************************)
(* LogSpec: simulation(order_log) for every order log of K orders at most, *)
(* on the book of size len(order_log) that simulation() creates.           *)
(***************************************************************************)
\* the order logs of 1 to K orders
Logs == UNION {[1..n -> Orders] : n \in 1..K}

LogInit ==
    /\ order_log \in Logs
    /\ simulated_log = <<>>
    /\ twin = None
    /\ ghost = None
    /\ Book(Len(order_log))

LogSpec == LogInit /\ [][SimulationNext]_vars

(***************************************************************************)
(* PairSpec: two runs of the loop of simulation() side by side, on two     *)
(* books of size K, for two order logs of the same length that differ in   *)
(* at most one position.  The first book is in the variables of the book,  *)
(* the second in twin.  ghost follows, in each run, the two entries that   *)
(* book.order() stores for the order at the position where the logs        *)
(* differ: where they are in the arrays (0: nowhere), whether book.match() *)
(* has matched one of them, and the values the run has decrypted so far.   *)
(***************************************************************************)
\* the orders at the position where the two logs differ: those of Orders, and
\* those of a quantity that no other order of the logs has
PairOrders ==
    {order(p, q, c) :
        p \in 1..MaxPrice, q \in 1..(MaxQuantity + 1), c \in Categories}

\* whether the conditional swap builds the first entry it returns from the
\* second entry of the pair, and the second from the first
exchanges(conditional_swap, pair) ==
    LET s == pair[1]
        t == pair[2]
    IN  IF or_(equal_to_zero(t.quantity), equal_to_zero(t.category))
        THEN TRUE
        ELSE IF or_(equal_to_zero(s.quantity), equal_to_zero(s.category))
        THEN FALSE
        ELSE IF conditional_swap = "descending"
        THEN less_than(s.price, t.price)
        ELSE ~less_than(s.price, t.price)

\* where arrange leaves the entry that is at index at of self
arrange_position(self, at, conditional_swap) ==
    LET after[n \in 0..(Len(self) - 1)] ==
            IF n = 0 THEN self ELSE arrange_step(after[n - 1], n, conditional_swap)
        position[n \in 0..(Len(self) - 1)] ==
            IF n = 0
            THEN at
            ELSE IF /\ position[n - 1] \in {n, n + 1}
                    /\ exchanges(conditional_swap,
                                 <<after[n - 1][n], after[n - 1][n + 1]>>)
                 THEN 2 * n + 1 - position[n - 1]
                 ELSE position[n - 1]
    IN  position[Len(self) - 1]

\* where book.order(o) leaves the entries followed; fresh: they are the two
\* entries of o itself.  An entry at position 0 is overwritten.
order_positions(a, b, o, at, fresh) ==
    LET ask == order(o.price, o.quantity, plus(o.category, -1))
        bid == order(o.price, o.quantity, plus(o.category, 1))
        from(i) == IF fresh THEN 1 ELSE IF i = 1 THEN 0 ELSE i
    IN  [asks |-> arrange_position([a EXCEPT ![1] = ask], from(at.asks),
                                   "descending"),
         bids |-> arrange_position([b EXCEPT ![1] = bid], from(at.bids),
                                   "ascending")]

\* where book.match() leaves the entries followed
match_positions(a, b, at) ==
    LET ask == a[Len(a)]
        bid == b[Len(b)]
        t == match(<<ask, bid>>)
        ab == update(<<ask, bid>>)
    IN  IF t # None
        THEN [asks |-> arrange_position([a EXCEPT ![Len(a)] = ab[1]], at.asks,
                                        "descending"),
              bids |-> arrange_position([b EXCEPT ![Len(b)] = ab[2]], at.bids,
                                        "ascending")]
        ELSE at

\* book.match() returns a transaction between two entries of which one is
\* followed
match_contributes(a, b, at) ==
    /\ match(<<a[Len(a)], b[Len(b)]>>) # None
    /\ at.asks = Len(a) \/ at.bids = Len(b)

PairInit ==
    /\ Book(K)
    /\ order_log = <<>>
    /\ simulated_log = <<>>
    /\ twin = [asks |-> book_asks(K), bids |-> book_bids(K), pc |-> "idle"]
    /\ ghost = [differs |-> FALSE,
                at |-> <<[asks |-> 0, bids |-> 0], [asks |-> 0, bids |-> 0]>>,
                contributed |-> <<FALSE, FALSE>>,
                revealed |-> << <<>>, <<>> >>]

\* b.order(o) in the two runs, with different orders at one position at most
PairOrder(o1, o2) ==
    /\ twin.pc = "idle"
    /\ returned.call # "order"
    /\ Submitted < K
    /\ IF o1 = o2 THEN o1 \in Orders ELSE ~ghost.differs
    /\ Order(o1)
    /\ LET r == book_order(twin.asks, twin.bids, o2)
       IN  twin' = [twin EXCEPT !.asks = r.asks, !.bids = r.bids]
    /\ ghost' = [ghost EXCEPT
                   !.differs = @ \/ o1 # o2,
                   !.at = <<order_positions(asks, bids, o1, @[1], o1 # o2),
                            order_positions(twin.asks, twin.bids, o2, @[2],
                                            o1 # o2)>>]
    /\ UNCHANGED <<order_log, simulated_log>>

\* the call of b.clear() in the two runs
PairClear ==
    /\ twin.pc = "idle"
    /\ returned.call = "order"
    /\ ClearCall
    /\ twin' = [twin EXCEPT !.pc = "clear"]
    /\ UNCHANGED <<order_log, simulated_log, ghost>>

\* an iteration of the loop of b.clear() in each run that is still in it
PairSettle ==
    /\ pc = "clear" \/ twin.pc = "clear"
    /\ IF pc = "clear" THEN ClearLoop ELSE UNCHANGED book_vars
    /\ twin' = IF twin.pc = "clear"
               THEN LET r == book_match(twin.asks, twin.bids)
                    IN  [asks |-> r.asks, bids |-> r.bids,
                         pc |-> IF r.transaction = None
                                THEN "idle" ELSE "clear"]
               ELSE twin
    /\ ghost' = [ghost EXCEPT
          !.at = <<IF pc = "clear"
                   THEN match_positions(asks, bids, @[1]) ELSE @[1],
                   IF twin.pc = "clear"
                   THEN match_positions(twin.asks, twin.bids, @[2]) ELSE @[2]>>,
          !.contributed =
                 <<@[1] \/ (pc = "clear"
                            /\ match_contributes(asks, bids, ghost.at[1])),
                   @[2] \/ (twin.pc = "clear"
                            /\ match_contributes(twin.asks, twin.bids,
                                                 ghost.at[2]))>>,
          !.revealed =
                 <<IF pc = "clear"
                   THEN @[1] \o book_match(asks, bids).decrypts ELSE @[1],
                   IF twin.pc = "clear"
                   THEN @[2] \o book_match(twin.asks, twin.bids).decrypts
                   ELSE @[2]>>]
    /\ UNCHANGED <<order_log, simulated_log>>

PairNext ==
    \/ \E o1, o2 \in PairOrders : PairOrder(o1, o2)
    \/ PairClear
    \/ PairSettle

PairSpec == PairInit /\ [][PairNext]_vars

(***************************************************************************)
(* Vocabulary of the properties.                                           *)
(***************************************************************************)
\* inert: a quantity of 0 or a category of 0
Inert(e) == e.quantity = 0 \/ e.category = 0

Active(e) == ~Inert(e)

\* the top entry of an array (Python index -1)
Top(self) == self[Len(self)]

\* every inert entry is at a lower index than every active entry
InertFirst(self) ==
    \A i, j \in DOMAIN self : (Inert(self[i]) /\ Active(self[j])) => i < j

\* the active entries, by increasing index, have non-increasing prices
ActiveDescending(self) ==
    \A i, j \in DOMAIN self :
        (i < j /\ Active(self[i]) /\ Active(self[j]))
            => self[i].price >= self[j].price

\* the active entries, by increasing index, have non-decreasing prices
ActiveAscending(self) ==
    \A i, j \in DOMAIN self :
        (i < j /\ Active(self[i]) /\ Active(self[j]))
            => self[i].price <= self[j].price

\* the smaller of two integers
Min(n, m) == IF n <= m THEN n ELSE m

\* how many entries of self equal e
Count(self, e) == Cardinality({i \in DOMAIN self : self[i] = e})

Range(self) == {self[i] : i \in DOMAIN self}

\* s and t hold the same entries, each as often, in any order
SameEntries(s, t) ==
    \A e \in Range(s) \cup Range(t) : Count(s, e) = Count(t, e)

\* entry e with its quantity reduced by q
Reduced(e, q) == [e EXCEPT !.quantity = @ - q]

\* the last call of book.match(), by the caller or by clear(), returned a
\* transaction
Matched == last.op = "match" /\ last.result # None

\* a round of simulation() is over: order() and then clear() have returned
RoundDone == pc = "idle" /\ returned.call = "clear"

(***************************************************************************)
(* C1.  Sort invariant: while at most K orders have been submitted, each   *)
(* followed by clear(), after every round every inert entry of an array is *)
(* at a lower index than every active entry, the active asks are in        *)
(* non-increasing price order and the active bids in non-decreasing price  *)
(* order.                                                                  *)
(***************************************************************************)
C1_SortInvariant ==
    (RoundDone /\ Submitted <= K)
        => /\ InertFirst(asks) /\ ActiveDescending(asks)
           /\ InertFirst(bids) /\ ActiveAscending(bids)

(***************************************************************************)
(* C2.  No-match correctness: book.match() returns None if and only if the *)
(* price of the top bid is below the price of the top ask, or the top ask  *)
(* is inert, or the top bid is inert; otherwise it returns a transaction.  *)
(* The tops are those on entry to the call.                                *)
(***************************************************************************)
C2_NoMatchCorrect ==
    last.op = "match"
        => /\ (last.result = None)
                <=> \/ Top(last.bids).price < Top(last.asks).price
                    \/ Inert(Top(last.asks))
                    \/ Inert(Top(last.bids))
           /\ last.result # None
                => last.result \in [price : Int, quantity : Int]

\* match() returned None for tops whose prices cross: one of them is inert
C2_Witness ==
    /\ last.op = "match"
    /\ last.result = None
    /\ Top(last.bids).price >= Top(last.asks).price
    /\ Active(Top(last.asks))
    /\ Top(last.bids).quantity > 0

(***************************************************************************)
(* C3.  Every transaction book.match() returns has the price of the ask    *)
(* that was at the top of the asks on entry, and the smaller of the        *)
(* quantities of the top ask and the top bid on entry; its price does not  *)
(* exceed the price of the top bid.                                        *)
(***************************************************************************)
C3_TransactionValues ==
    Matched
        => /\ last.result.price = Top(last.asks).price
           /\ last.result.quantity =
                  Min(Top(last.asks).quantity, Top(last.bids).quantity)
           /\ last.result.price <= Top(last.bids).price

\* a transaction below the price of the bid, which leaves part of the ask
C3_Witness ==
    /\ Matched
    /\ Top(last.asks).price < Top(last.bids).price
    /\ Top(last.bids).quantity < Top(last.asks).quantity

(***************************************************************************)
(* C4.  Conservation per match: when book.match() returns a transaction of *)
(* quantity q, the arrays after the call hold the entries they held on     *)
(* entry, in some order, except that the top ask and the top bid each have *)
(* their quantity reduced by q, with price and category unchanged.         *)
(***************************************************************************)
C4_Conservation ==
    Matched
        => LET q == last.result.quantity
               n == Len(last.asks)
               m == Len(last.bids)
           IN  /\ SameEntries(asks,
                      [last.asks EXCEPT ![n] = Reduced(last.asks[n], q)])
               /\ SameEntries(bids,
                      [last.bids EXCEPT ![m] = Reduced(last.bids[m], q)])

\* a match that exhausts the top bid but not the top ask, and after which
\* the entries of the bids have changed position
C4_Witness ==
    /\ Matched
    /\ Top(last.bids).quantity < Top(last.asks).quantity
    /\ Top(bids) # Reduced(Top(last.bids), last.result.quantity)
    /\ Top(asks) = Reduced(Top(last.asks), last.result.quantity)

(***************************************************************************)
(* C6.  Termination of settlement: clear() returns after finitely many     *)
(* calls of book.match(), and each successful match strictly decreases the *)
(* sum of the quantities of the two top entries.                           *)
(***************************************************************************)
\* the sum of the quantities of the entries of an array
RECURSIVE TotalQuantity(_)
TotalQuantity(self) ==
    IF self = <<>>
    THEN 0
    ELSE Head(self).quantity + TotalQuantity(Tail(self))

\* the sum of the quantities of the entries at the top of the two arrays
TopQuantity(a, b) == Top(a).quantity + Top(b).quantity

\* the claim as stated: the quantities at the two tops add up to less after
\* a successful match than before it
C6_TopQuantityDecreases ==
    Matched => TopQuantity(asks, bids) < TopQuantity(last.asks, last.bids)

\* as amended: clear() returns; every step of its loop is an iteration that
\* returns or appends a transaction; and a successful match strictly
\* decreases the sum of the quantities of all the entries of the two arrays,
\* none of which is negative
C6_Termination ==
    /\ (pc = "clear") ~> (pc = "idle")
    /\ [][pc = "clear" => Iteration]_vars
    /\ [](Matched =>
            TotalQuantity(asks) + TotalQuantity(bids)
                < TotalQuantity(last.asks) + TotalQuantity(last.bids))
    /\ [](\A e \in Range(asks) \cup Range(bids) : e.quantity >= 0)

\* a successful match after which the quantities at the two tops add up to
\* more than before
C6_Witness ==
    /\ Matched
    /\ TopQuantity(asks, bids) > TopQuantity(last.asks, last.bids)
    /\ pc = "clear"

(***************************************************************************)
(* C7.  Idempotent settlement: a clear() called immediately after a        *)
(* clear() that has returned returns the empty list and leaves both arrays *)
(* as the first clear() left them.                                         *)
(***************************************************************************)
\* a clear() has returned whose call came right after the return of a clear()
ClearedTwice ==
    pc = "idle" /\ returned.call = "clear" /\ returned.after = "clear"

\* the second clear() returns after one book.match(), which found the arrays
\* as the first clear() left them: last.asks and last.bids
C7_IdempotentSettlement ==
    ClearedTwice
        => /\ returned.value = <<>>
           /\ last.op = "match" /\ last.result = None
           /\ asks = last.asks
           /\ bids = last.bids

\* a second clear() in a row on a book that holds an active ask and an
\* active bid, and whose asks are not sorted
C7_Witness ==
    /\ ClearedTwice
    /\ \E i \in DOMAIN asks : Active(asks[i])
    /\ \E i \in DOMAIN bids : Active(bids[i])
    /\ ~InertFirst(asks)

(***************************************************************************)
(* C8.  Capacity bound: once K orders have been submitted to a book of     *)
(* capacity K, a further call of order() does not store the order and      *)
(* leaves both arrays unchanged.                                           *)
(***************************************************************************)
C8_CapacityBound ==
    (last.op = "order" /\ Submitted > K)
        => /\ asks = last.asks
           /\ bids = last.bids

(***************************************************************************)
(* C9.  Shared budget: while at most K orders have been submitted, each    *)
(* followed by clear(), the entries at position 0 of the asks and of the   *)
(* bids that order() overwrites are inert, and every active entry the      *)
(* arrays held on entry to order() is held by them on return.              *)
(***************************************************************************)
\* every active entry of s is in t at least as often
ActiveKept(s, t) ==
    \A e \in Range(s) : Active(e) => Count(t, e) >= Count(s, e)

\* the last call of order() overwrote inert entries and lost no active entry
NoActiveOverwritten ==
    /\ Inert(last.asks[1])
    /\ Inert(last.bids[1])
    /\ ActiveKept(last.asks, asks)
    /\ ActiveKept(last.bids, bids)

C9_SharedBudget ==
    (last.op = "order" /\ Submitted <= K) => NoActiveOverwritten

\* the K-th order() finds every entry of the asks active but the one at
\* position 0
C9_Witness ==
    /\ last.op = "order"
    /\ Submitted = K
    /\ \A i \in 2..K : Active(last.asks[i])
    /\ Active(asks[1])

(***************************************************************************)
(* C10.  Per-side budget: while at most K bids and at most K asks have     *)
(* been submitted, each followed by clear(), order() overwrites no active  *)
(* entry and loses none.                                                   *)
(***************************************************************************)
C10_PerSideBudget ==
    (last.op = "order" /\ submitted.ask <= K /\ submitted.bid <= K)
        => NoActiveOverwritten

(***************************************************************************)
(* C5.  Scenario: a book of capacity 6, or of the capacity 7 simulation()  *)
(* gives it, that receives bid(300,2), bid(200,8), ask(800,7), ask(200,8), *)
(* ask(700,7), ask(800,5), ask(200,6), with clear() after each, returns    *)
(* the transaction lists [], [], [], [(200,2),(200,6)], [], [], [(200,2)]. *)
(***************************************************************************)
\* the lists clear() is to return in the seven rounds
ScenarioReturns ==
    << <<>>, <<>>, <<>>, <<transaction(200, 2), transaction(200, 6)>>,
       <<>>, <<>>, <<transaction(200, 2)>> >>

\* the simulated log after n rounds: each order, then its transactions
RECURSIVE ScenarioOutput(_)
ScenarioOutput(n) ==
    IF n = 0
    THEN <<>>
    ELSE ScenarioOutput(n - 1) \o <<ScenarioLog[n]>> \o ScenarioReturns[n]

C5_Scenario ==
    (order_log = ScenarioLog /\ RoundDone)
        => /\ returned.value = ScenarioReturns[Submitted]
           /\ simulated_log = ScenarioOutput(Submitted)

\* the seventh round is over on the book of capacity 6
C5_Witness ==
    /\ order_log = ScenarioLog
    /\ RoundDone
    /\ Submitted = Len(ScenarioLog)
    /\ Len(asks) = ScenarioSize
    /\ Len(simulated_log) = 10

(***************************************************************************)
(* C11.  Fixed reveal count: every call of match(), and so every           *)
(* book.match(), makes exactly one call of decrypt_bool; when it returns a *)
(* transaction it then makes exactly two calls of decrypt_int, of the      *)
(* price and then of the quantity, and when it returns None it makes none. *)
(* order(), update() and arrange() make no decrypt call: a call of         *)
(* book.order() makes none, and a call of book.match() none but those of   *)
(* match().                                                                *)
(***************************************************************************)
C11_FixedRevealCount ==
    /\ last.op = "order" => last.decrypts = <<>>
    /\ (last.op = "match" /\ last.result = None)
          => last.decrypts = <<decrypt("decrypt_bool", TRUE)>>
    /\ Matched
          => last.decrypts = <<decrypt("decrypt_bool", FALSE),
                               decrypt("decrypt_int", last.result.price),
                               decrypt("decrypt_int", last.result.quantity)>>

\* book.match() has returned None for a top ask and a top bid that are both
\* active: their price and their quantity stay undisclosed
C11_Witness ==
    /\ last.op = "match"
    /\ last.result = None
    /\ Len(last.decrypts) = 1
    /\ Active(Top(last.asks))
    /\ Active(Top(last.bids))

(***************************************************************************)
(* C12.  Non-interference of unmatched orders: in two runs on order logs   *)
(* of the same length, K at most, that differ in one position only, whose  *)
(* order is matched by no transaction in either run, the values decrypted  *)
(* (every no_match, and the price and the quantity of every transaction)   *)
(* are the same in the two runs, round after round.                        *)
(***************************************************************************)
\* the two runs have completed the same number of rounds
PairIdle == pc = "idle" /\ twin.pc = "idle"

C12_NonInterference ==
    (/\ PairIdle
     /\ ghost.differs
     /\ ~ghost.contributed[1]
     /\ ~ghost.contributed[2])
        => ghost.revealed[1] = ghost.revealed[2]

(***************************************************************************)
(* C13.  Side separation: of an order submitted with category -1 (ask) or  *)
(* 1 (bid), book.order() stores a copy of category -2 or 2 in the array of *)
(* its side and a copy of category 0 in the array of the opposite side.    *)
(* Every transaction is between an entry of category -2 of the asks, which *)
(* was submitted as an ask, and an entry of category 2 of the bids, which  *)
(* was submitted as a bid: a copy of category 0 is never matched, and no   *)
(* order is matched against its own copy.                                  *)
(***************************************************************************)
\* the copy of order o with category c
Copy(o, c) == order(o.price, o.quantity, c)

C13_SideSeparation ==
    /\ \A i \in DOMAIN asks : asks[i].category \in {0, -2}
    /\ \A i \in DOMAIN bids : bids[i].category \in {0, 2}
    /\ (last.op = "order" /\ last.arg.category = -1)
          => /\ Count(asks, Copy(last.arg, -2)) >= 1
             /\ Count(bids, Copy(last.arg, 0)) >= 1
    /\ (last.op = "order" /\ last.arg.category = 1)
          => /\ Count(asks, Copy(last.arg, 0)) >= 1
             /\ Count(bids, Copy(last.arg, 2)) >= 1
    /\ Matched
          => /\ Top(last.asks).category = -2
             /\ Top(last.bids).category = 2

\* book.match() finds a bid at the top of the bids and its own copy at the
\* top of the asks, and returns None
C13_Witness ==
    /\ last.op = "match"
    /\ last.result = None
    /\ Top(last.bids).category = 2
    /\ Top(last.bids).quantity > 0
    /\ Top(last.asks) = Copy(Top(last.bids), 0)

(***************************************************************************)
(* C14.  Earliest possible execution: while at most K orders have been     *)
(* submitted, each followed by clear(), the book is uncrossed after every  *)
(* round: no active entry of the bids has a price greater than or equal to *)
(* the price of an active entry of the asks.                               *)
(***************************************************************************)
\* no active bid is priced at or above an active ask
Uncrossed(a, b) ==
    \A i \in DOMAIN a, j \in DOMAIN b :
        (Active(a[i]) /\ Active(b[j])) => b[j].price < a[i].price

C14_Uncrossed ==
    (RoundDone /\ Submitted <= K) => Uncrossed(asks, bids)

\* a round is over in which clear() has returned transactions, and active
\* entries remain in both arrays
C14_Witness ==
    /\ RoundDone
    /\ Submitted <= K
    /\ returned.value # <<>>
    /\ \E i \in DOMAIN asks : Active(asks[i])
    /\ \E j \in DOMAIN bids : Active(bids[j])

(***************************************************************************)
(* C15.  Quantity reconciliation: for every log of K orders at most, each  *)
(* followed by clear(), after every round the quantities of the active     *)
(* entries of the asks add up to the quantities of the asks submitted so   *)
(* far minus the quantities of the transactions so far, and the quantities *)
(* of the active entries of the bids to those of the bids submitted so far *)
(* minus the quantities of the transactions so far.                        *)
(***************************************************************************)
\* the sum of the quantities of the active entries of an array
RECURSIVE ActiveQuantity(_)
ActiveQuantity(self) ==
    IF self = <<>>
    THEN 0
    ELSE (IF Active(Head(self)) THEN Head(self).quantity ELSE 0)
             + ActiveQuantity(Tail(self))

\* the sum of the quantities of the orders of category c in a simulated log
RECURSIVE SubmittedQuantity(_, _)
SubmittedQuantity(log, c) ==
    IF log = <<>>
    THEN 0
    ELSE (IF "category" \in DOMAIN Head(log) /\ Head(log).category = c
          THEN Head(log).quantity ELSE 0)
             + SubmittedQuantity(Tail(log), c)

\* the sum of the quantities of the transactions in a simulated log
RECURSIVE TransactedQuantity(_)
TransactedQuantity(log) ==
    IF log = <<>>
    THEN 0
    ELSE (IF "category" \in DOMAIN Head(log) THEN 0 ELSE Head(log).quantity)
             + TransactedQuantity(Tail(log))

C15_QuantityReconciliation ==
    RoundDone
        => /\ ActiveQuantity(asks) =
                  SubmittedQuantity(simulated_log, -1)
                      - TransactedQuantity(simulated_log)
           /\ ActiveQuantity(bids) =
                  SubmittedQuantity(simulated_log, 1)
                      - TransactedQuantity(simulated_log)

\* the last round of a log of K orders is over, there have been
\* transactions, and both arrays still hold active entries
C15_Witness ==
    /\ RoundDone
    /\ Submitted = K
    /\ TransactedQuantity(simulated_log) > 0
    /\ ActiveQuantity(asks) > 0
    /\ ActiveQuantity(bids) > 0

(***************************************************************************)
(* C16.  Inertness is permanent: a call of book.match(), by the caller or  *)
(* by clear(), leaves every inert entry in its array with its price, its   *)
(* quantity and its category; so does a call of order(), but for the entry *)
(* at position 0 that it overwrites; and an inert entry is never the ask   *)
(* or the bid of a transaction.                                            *)
(***************************************************************************)
\* the inert entries of s are in t, each as often at least, but for one
\* occurrence of each entry of the set gone
InertKept(s, t, gone) ==
    \A e \in Range(s) :
        Inert(e) => Count(t, e) >= Count(s, e) - (IF e \in gone THEN 1 ELSE 0)

C16_InertnessPermanent ==
    /\ last.op = "match"
          => /\ InertKept(last.asks, asks, {})
             /\ InertKept(last.bids, bids, {})
    /\ last.op = "order"
          => /\ InertKept(last.asks, asks, {last.asks[1]})
             /\ InertKept(last.bids, bids, {last.bids[1]})
    /\ Matched
          => /\ Active(Top(last.asks))
             /\ Active(Top(last.bids))

\* a transaction has left the arrays in another order, in which they still
\* hold an exhausted ask and the copy of category 0 of a bid
C16_Witness ==
    /\ Matched
    /\ \E i \in DOMAIN last.asks :
          /\ last.asks[i].quantity = 0 /\ last.asks[i].category = -2
          /\ asks[i] # last.asks[i]
    /\ \E i \in DOMAIN last.asks :
          last.asks[i].quantity > 0 /\ last.asks[i].category = 0

(***************************************************************************)
(* ArraySpec: array.inject on an array of length K.  The array is asks,    *)
(* with the conditional swap descending, or bids, with the conditional     *)
(* swap ascending.  It starts as book() fills it and takes K injects at    *)
(* most, or it starts as any array that satisfies the sort invariant and   *)
(* has an inert entry at position 0, and takes one inject.                 *)
(***************************************************************************)
\* the entries book.order() builds for the asks, and exhausted ones
AskEntries ==
    {order(p, q, c) : p \in 1..MaxPrice, q \in 0..MaxQuantity, c \in {-2, 0}}

\* the entries book.order() builds for the bids, and exhausted ones
BidEntries ==
    {order(p, q, c) : p \in 1..MaxPrice, q \in 0..MaxQuantity, c \in {0, 2}}

\* the sort invariant of the asks
SortedDescending(self) == InertFirst(self) /\ ActiveDescending(self)

\* the sort invariant of the bids
SortedAscending(self) == InertFirst(self) /\ ActiveAscending(self)

ArrayInit ==
    /\ pc = "idle"
    /\ transactions = <<>>
    /\ submitted = [ask |-> 0, bid |-> 0]
    /\ order_log = <<>>
    /\ simulated_log = <<>>
    /\ twin = None
    /\ ghost = None
    /\ \/ /\ asks = book_asks(K)
          /\ bids = book_bids(K)
          /\ returned = [call |-> "book", after |-> "book", value |-> None]
       \/ /\ asks \in {a \in [1..K -> AskEntries] :
                          SortedDescending(a) /\ Inert(a[1])}
          /\ bids = book_bids(K)
          /\ returned = [call |-> "array", after |-> "array", value |-> None]
       \/ /\ asks = book_asks(K)
          /\ bids \in {b \in [1..K -> BidEntries] :
                          SortedAscending(b) /\ Inert(b[1])}
          /\ returned = [call |-> "array", after |-> "array", value |-> None]
    /\ last = [op |-> returned.call, asks |-> asks, bids |-> bids,
               arg |-> None, result |-> None, decrypts |-> <<>>]

\* how many injects the array takes
Injects == IF returned.call = "book" THEN K ELSE 1

\* self.asks.inject(ask, descending)
InjectAsk(o) ==
    /\ Submitted < Injects
    /\ asks' = inject(asks, o, "descending")
    /\ last' = [op |-> "inject", asks |-> asks, bids |-> bids, arg |-> o,
                result |-> None, decrypts |-> <<>>]
    /\ submitted' = [submitted EXCEPT !.ask = @ + 1]
    /\ UNCHANGED <<bids, pc, transactions, returned, order_log,
                   simulated_log, twin, ghost>>

\* self.bids.inject(bid, ascending)
InjectBid(o) ==
    /\ Submitted < Injects
    /\ bids' = inject(bids, o, "ascending")
    /\ last' = [op |-> "inject", asks |-> asks, bids |-> bids, arg |-> o,
                result |-> None, decrypts |-> <<>>]
    /\ submitted' = [submitted EXCEPT !.bid = @ + 1]
    /\ UNCHANGED <<asks, pc, transactions, returned, order_log,
                   simulated_log, twin, ghost>>

ArrayNext ==
    \/ \E o \in AskEntries : InjectAsk(o)
    \/ \E o \in BidEntries : InjectBid(o)

ArraySpec == ArrayInit /\ [][ArrayNext]_vars

(***************************************************************************)
(* C17.  One pass suffices after an insert: inject, with either            *)
(* conditional swap, into an array of length K that satisfies the sort     *)
(* invariant and has an inert entry at position 0, yields an array that    *)
(* satisfies the sort invariant; and so does every sequence of K injects   *)
(* at most into an array filled with null orders.                          *)
(***************************************************************************)
C17_OnePassSuffices ==
    SortedDescending(asks) /\ SortedAscending(bids)

\* an active entry has been injected into asks that held active entries at
\* every other position, and has come to rest between two of them
C17_Witness ==
    /\ last.op = "inject"
    /\ returned.call = "array"
    /\ asks # last.asks
    /\ Active(last.arg)
    /\ \A i \in 2..K : Active(last.asks[i])
    /\ asks[1] # last.arg
    /\ asks[K] # last.arg

(***************************************************************************)
(* C18.  Relocation of exhausted orders: when book.match() returns a       *)
(* transaction that reduces the quantity of a top entry to 0, the arrays   *)
(* it leaves hold that exhausted entry at a lower index than every active  *)
(* entry of its array.                                                     *)
(***************************************************************************)
\* entry e is in self at lower indices only than the active entries
Below(self, e) ==
    \A i, j \in DOMAIN self : (self[i] = e /\ Active(self[j])) => i < j

C18_ExhaustedRelocated ==
    Matched
        => LET q == last.result.quantity
               ask == Reduced(Top(last.asks), q)
               bid == Reduced(Top(last.bids), q)
           IN  /\ ask.quantity = 0 => Below(asks, ask)
               /\ bid.quantity = 0 => Below(bids, bid)

(***************************************************************************)
(* C19.  Top-of-book is the best order: after every call of order() and    *)
(* every call of book.match(), by the caller or by clear(), the last entry *)
(* of each array that holds an active entry is active, and no active entry *)
(* of the asks has a lower price than the last entry of the asks, and no   *)
(* active entry of the bids a higher price than the last entry of the      *)
(* bids.                                                                   *)
(***************************************************************************)
\* self holds an active entry
HasActive(self) == \E i \in DOMAIN self : Active(self[i])

C19_TopIsBest ==
    last.op \in {"order", "match"}
        => /\ HasActive(asks)
                => /\ Active(Top(asks))
                   /\ \A i \in DOMAIN asks :
                         Active(asks[i]) => Top(asks).price <= asks[i].price
           /\ HasActive(bids)
                => /\ Active(Top(bids))
                   /\ \A i \in DOMAIN bids :
                         Active(bids[i]) => Top(bids).price >= bids[i].price

\* a transaction has exhausted the top ask, the asks are no longer sorted,
\* and a cheaper ask than some other active ask is at the top
C19_Witness ==
    /\ Matched
    /\ Top(last.asks).quantity = last.result.quantity
    /\ ~InertFirst(asks)
    /\ \E i \in DOMAIN asks :
          Active(asks[i]) /\ Top(asks).price < asks[i].price

(***************************************************************************)
(* C20.  In every reachable state of a book, after any sequence of calls   *)
(* of order(), book.match() and clear(), the active entries of the asks,   *)
(* read by increasing index and ignoring the inert entries, have           *)
(* non-increasing prices, and the active entries of the bids have          *)
(* non-decreasing prices.                                                  *)
(***************************************************************************)
C20_ActiveInPolicyOrder ==
    ActiveDescending(asks) /\ ActiveAscending(bids)

\* active asks of two prices with an exhausted ask between them
C20_Witness ==
    \E i, j, n \in DOMAIN asks :
        /\ i < j /\ j < n
        /\ Active(asks[i]) /\ Inert(asks[j]) /\ Active(asks[n])
        /\ asks[i].price > asks[n].price

(***************************************************************************)
(* C21.  No effect without a match: when book.match() returns None, both   *)
(* arrays are the same sequences of entries as on entry to the call:       *)
(* nothing is written back and no arrange pass is run.                     *)
(***************************************************************************)
C21_NoEffectWithoutMatch ==
    (last.op = "match" /\ last.result = None)
        => /\ asks = last.asks
           /\ bids = last.bids

\* book.match() has returned None on asks that an arrange pass would change
C21_Witness ==
    /\ last.op = "match"
    /\ last.result = None
    /\ arrange(last.asks, "descending") # last.asks

(***************************************************************************)
(* CoreSpec: the core functions on orders, each called on a pair of        *)
(* orders, and array.arrange, called on an array the pair is the first two *)
(* entries of.  last.asks is the array, last.arg the argument of the call  *)
(* and last.result what the call returns.                                  *)
(***************************************************************************)
\* the length of the array
CoreLen == 3

\* the orders of the array: the entries of the arrays of a book, of any
\* side, with the prices and the quantities of null and exhausted orders
CoreOrders ==
    {order(p, q, c) :
        p \in 0..MaxPrice, q \in 0..MaxQuantity, c \in {-2, 0, 2}}

CoreInit ==
    /\ asks = book_asks(K)
    /\ bids = book_bids(K)
    /\ pc = "idle"
    /\ transactions = <<>>
    /\ returned = [call |-> "book", after |-> "book", value |-> None]
    /\ submitted = [ask |-> 0, bid |-> 0]
    /\ \E self \in [1..CoreLen -> CoreOrders] :
           last = [op |-> "pair", asks |-> self, bids |-> self,
                   arg |-> <<self[1], self[2]>>, result |-> None,
                   decrypts |-> <<>>]
    /\ order_log = <<>>
    /\ simulated_log = <<>>
    /\ twin = None
    /\ ghost = None

\* what a call leaves: its name, its argument, the value it returns and the
\* decrypt calls it makes
Call(op, arg, result, decrypts) ==
    /\ last.op = "pair"
    /\ last' = [last EXCEPT !.op = op, !.arg = arg, !.result = result,
                            !.decrypts = decrypts]
    /\ UNCHANGED <<asks, bids, pc, transactions, returned, submitted,
                   order_log, simulated_log, twin, ghost>>

CallDescending == Call("descending", last.arg, descending(last.arg), <<>>)

CallAscending == Call("ascending", last.arg, ascending(last.arg), <<>>)

CallMaximumMinimum ==
    Call("maximum_order, minimum_order", last.arg,
         <<maximum_order(last.arg[1], last.arg[2]),
           minimum_order(last.arg[1], last.arg[2])>>,
         <<>>)

CallMatch ==
    Call("match(ask_bid)", last.arg, match(last.arg), match_decrypts(last.arg))

CallUpdate == Call("update", last.arg, update(last.arg), <<>>)

CallArrange(conditional_swap) ==
    Call("arrange", last.asks, arrange(last.asks, conditional_swap), <<>>)

CoreNext ==
    \/ CallDescending
    \/ CallAscending
    \/ CallMaximumMinimum
    \/ CallMatch
    \/ CallUpdate
    \/ CallArrange("descending")
    \/ CallArrange("ascending")

CoreSpec == CoreInit /\ [][CoreNext]_vars

(***************************************************************************)
(* C22.  update(ask_bid) returns a pair equal field for field to its       *)
(* argument whenever match(ask_bid) returns None, and otherwise the pair   *)
(* with both quantities reduced by the quantity of the transaction.        *)
(***************************************************************************)
\* the pair with the quantities of both orders reduced by q
ReducedPair(pair, q) == <<Reduced(pair[1], q), Reduced(pair[2], q)>>

\* the claim as stated
C22_UpdateFollowsMatch ==
    last.op = "update"
        => IF match(last.arg) = None
           THEN last.result = last.arg
           ELSE last.result = ReducedPair(last.arg, match(last.arg).quantity)

\* as amended: update returns its argument when the price of the bid is
\* below the price of the ask, and otherwise the pair with both quantities
\* reduced by the smaller of the two, whatever the categories.  It follows
\* match when match returns a transaction, when the price of the bid is
\* below the price of the ask and when a quantity is 0, but not when match
\* returns None for a category of 0 alone.
C22_UpdateRule ==
    last.op = "update"
        => LET ask == last.arg[1]
               bid == last.arg[2]
               q == Min(ask.quantity, bid.quantity)
           IN  /\ last.result =
                      IF bid.price < ask.price
                      THEN last.arg
                      ELSE ReducedPair(last.arg, q)
               /\ match(last.arg) # None
                      => last.result =
                             ReducedPair(last.arg, match(last.arg).quantity)
               /\ (bid.price < ask.price \/ q = 0) => last.result = last.arg

\* update changes a pair for which match returns None: the ask is a copy of
\* category 0
C22_Witness ==
    /\ last.op = "update"
    /\ match(last.arg) = None
    /\ last.arg[1].category = 0
    /\ last.result # last.arg

(***************************************************************************)
(* C23.  Conditional-swap rule: descending((s, t)) is (t, s) if t is       *)
(* inert, else (s, t) if s is inert, else (the order with the higher       *)
(* price, the order with the lower price); ascending((s, t)) is the same   *)
(* with (the order with the lower price, the order with the higher price)  *)
(* in the last case.  Inert means quantity 0 or category 0.                *)
(***************************************************************************)
\* the two orders of pair, in one order or the other
EitherOrder(pair) == {pair, <<pair[2], pair[1]>>}

C24_NoHybridRecords ==
    /\ last.op \in {"maximum_order, minimum_order", "descending", "ascending"}
           => last.result \in EitherOrder(last.arg)
    /\ last.op = "arrange" => SameEntries(last.result, last.arg)

\* maximum_order and minimum_order were called on two different orders of
\* the same price
C24_Witness ==
    /\ last.op = "maximum_order, minimum_order"
    /\ last.arg[1].price = last.arg[2].price
    /\ last.arg[1] # last.arg[2]
    /\ last.result = last.arg

(***************************************************************************)
(* SweepSpec: the caller of RoundSpec, with orders large enough to be      *)
(* matched with every order a book of size K holds.                        *)
(***************************************************************************)
SweepOrders ==
    {order(p, q, c) :
        p \in 1..MaxPrice, q \in (1..MaxQuantity) \cup {K, K + 1},
        c \in Categories}

SweepNext ==
    \/ \E o \in SweepOrders : RoundOrder(o)
    \/ RoundClear
    \/ Settle

SweepSpec == Init /\ [][SweepNext]_vars

(***************************************************************************)
(* C25.  Bounded settlement round: on a book of size K that was settled    *)
(* before the submission, the clear() that follows one order() returns at  *)
(* most K transactions.                                                    *)
(***************************************************************************)
C25_BoundedRound ==
    /\ pc = "clear" => Len(transactions) <= K
    /\ RoundDone => Len(returned.value) <= K

\* a clear() has returned K - 1 transactions: the order was matched with
\* every order the other array could hold beside the copy of the order
C25_Witness ==
    /\ RoundDone
    /\ Len(returned.value) = K - 1

(***************************************************************************)
(* C26.  Time priority at equal price: among the active orders of one side *)
(* that have the same price, the order submitted earlier is matched before *)
(* the order submitted later, in the asks array and in the bids array.     *)
(***************************************************************************)
\* the first match of a simulation: until then every order submitted is in
\* its array with the quantity it was submitted with
FirstMatch ==
    /\ Matched
    /\ Len(simulated_log) = Submitted
    /\ Len(transactions) = 1

\* the positions in the order log of the orders of category c and price p
\* submitted so far
SubmittedAt(c, p) ==
    {i \in 1..Submitted :
        order_log[i].category = c /\ order_log[i].price = p}

\* the earliest of them
Earliest(c, p) ==
    CHOOSE i \in SubmittedAt(c, p) : \A j \in SubmittedAt(c, p) : i <= j

\* the entry matched first is the earliest order of its side and price: it
\* has the quantity of that order
C26_TimePriority ==
    FirstMatch
        => /\ Top(last.asks).quantity
                  = order_log[Earliest(-1, Top(last.asks).price)].quantity
           /\ Top(last.bids).quantity
                  = order_log[Earliest(1, Top(last.bids).price)].quantity

(***************************************************************************)
(* C27.  Every transaction has a quantity of at least 1, and every         *)
(* book.match() that returns a transaction leaves at least one of the two  *)
(* matched entries with quantity 0: each match exhausts the ask, the bid,  *)
(* or both.                                                                *)
(***************************************************************************)
\* the ask and the bid of the last match, as the match leaves them
MatchedAsk == Reduced(Top(last.asks), last.result.quantity)

MatchedBid == Reduced(Top(last.bids), last.result.quantity)

C27_MatchExhausts ==
    /\ \A i \in DOMAIN transactions : transactions[i].quantity >= 1
    /\ Matched
           => /\ last.result.quantity >= 1
              /\ Count(asks, MatchedAsk) >= 1
              /\ Count(bids, MatchedBid) >= 1
              /\ MatchedAsk.quantity = 0 \/ MatchedBid.quantity = 0

\* a match has exhausted the bid and left the ask with a part of its quantity
C27_Witness ==
    /\ Matched
    /\ MatchedBid.quantity = 0
    /\ MatchedAsk.quantity >= 1
    /\ Count(asks, MatchedAsk) >= 1

(***************************************************************************)
(* C28.  Quantities stay non-negative: every submitted order having a      *)
(* quantity >= 0, every entry of both arrays has a quantity >= 0 in every  *)
(* reachable state.                                                        *)
(***************************************************************************)
C28_QuantitiesNonNegative ==
    \A self \in {asks, bids} : \A i \in DOMAIN self : self[i].quantity >= 0

\* a match has just reduced the quantities of two entries, one of them to 0
C28_Witness ==
    /\ Matched
    /\ \E i \in DOMAIN asks : asks[i].quantity = 0 /\ asks[i].category = -2
    /\ \E i \in DOMAIN bids : bids[i].quantity >= 1 /\ bids[i].category = 2

(***************************************************************************)
(* C29.  Round ordering in the simulated log: the simulated log holds the  *)
(* orders of the order log in their original relative order; the           *)
(* transactions of the settlement of an order come after that order and    *)
(* before the next order, in the order clear() produced them; and no order *)
(* is submitted while a settlement round is still running.                 *)
(***************************************************************************)
\* an entry of a simulated log that is an order, not a transaction
IsOrder(x) == "category" \in DOMAIN x

\* s is the beginning of t
Prefix(s, t) == Len(s) <= Len(t) /\ SubSeq(t, 1, Len(s)) = s

\* the simulated log, while the round of the last order is running and when
\* its clear() has returned
LogInRounds ==
    /\ SelectSeq(simulated_log, IsOrder) = SubSeq(order_log, 1, Submitted)
    /\ (pc = "clear" \/ returned.call = "order")
           => simulated_log[Len(simulated_log)] = order_log[Submitted]
    /\ RoundDone
           => LET n == Len(simulated_log)
                  m == Len(returned.value)
              IN  /\ m < n
                  /\ simulated_log[n - m] = order_log[Submitted]
                  /\ SubSeq(simulated_log, n - m + 1, n) = returned.value

\* an order is submitted only when no round is running, and the simulated
\* log is only appended to
RoundsApart ==
    /\ Submitted' # Submitted => (pc = "idle" /\ returned.call # "order")
    /\ Prefix(simulated_log, simulated_log')

C29_RoundOrdering == [] LogInRounds /\ [][RoundsApart]_vars

\* a clear() has returned two transactions, and they are in the simulated
\* log after an order that is not the first one
C29_Witness ==
    /\ RoundDone
    /\ Len(returned.value) = 2
    /\ Submitted >= 2
    /\ Len(simulated_log) >= Submitted + 2

C31_DescendingAsDocumented ==
    last.op = "descending" => last.result = descending_docstring(last.arg)

(***************************************************************************)
(* C32.  Fixed capacity: in every reachable state, after more than K       *)
(* submissions included, the asks array and the bids array of a book       *)
(* created with size K each have length exactly K; order(), book.match()   *)
(* and clear() never grow or shrink them.                                  *)
(***************************************************************************)
C32_FixedCapacity ==
    /\ Len(asks) = K
    /\ Len(bids) = K
    /\ Len(last.asks) = K
    /\ Len(last.bids) = K

\* more than K orders were submitted and the last of them was matched
C32_Witness ==
    /\ Submitted > K
    /\ Matched
    /\ Len(asks) = K
    /\ Len(bids) = K

====
